---- MODULE Spec2Model ----
(***************************************************************************)
(* SnippetRepositoryStorageMoveService (snippet_repository_storage_move.go) *)
(* as a state machine.  Every invocation of one of the six methods runs in *)
(* a slot; a method is split at its one blocking point, the network call   *)
(* inside client.Do.  The client (NewRequest, Do) is the environment: what *)
(* it answers is chosen from the action's parameters.                      *)
(*                                                                         *)
(* Strings that the code formats are sequences of tokens: a literal piece  *)
(* of a format string is one token, every character printed by %d is a     *)
(* token of its own, so that the printed digits can be read back.          *)
(***************************************************************************)
EXTENDS Integers, Sequences, FiniteSets, TLC

\* ---------------------------------------------------------------- bounds

\* Number of invocations that may be alive at the same time.
NumSlots == 2

\* Largest magnitude of a snippet or move identifier handed in by a caller.
MaxId == 42

Slots == 1..NumSlots

\* Identifiers callers pass: negative, zero and positive, one and two digits.
Ids == {0 - MaxId, 0 - 1, 0, 7, MaxId}

\* Identifiers used when invocations are interleaved.
ConcIds == {MaxId}

ConcMoveIds == {7}

\* ------------------------------------------------------- fmt.Sprintf, %d

Digit(d) ==
    CASE d = 0 -> "0" [] d = 1 -> "1" [] d = 2 -> "2" [] d = 3 -> "3"
      [] d = 4 -> "4" [] d = 5 -> "5" [] d = 6 -> "6" [] d = 7 -> "7"
      [] d = 8 -> "8" [] d = 9 -> "9"

RECURSIVE FormatUint(_)
FormatUint(n) ==
    IF n < 10 THEN <<Digit(n)>> ELSE FormatUint(n \div 10) \o <<Digit(n % 10)>>

\* The verb %d applied to an int: a minus sign for a negative value, then
\* the digits of the magnitude, most significant first.
FormatInt(n) ==
    IF n < 0 THEN <<"-">> \o FormatUint(0 - n) ELSE FormatUint(n)

\* fmt.Sprintf(format, a...): the format is given as its pieces, "%d" being
\* the verb; each verb consumes the next operand, in order.
RECURSIVE Sprintf(_, _)
Sprintf(format, a) ==
    IF format = <<>> THEN <<>>
    ELSE IF Head(format) = "%d"
         THEN FormatInt(Head(a)) \o Sprintf(Tail(format), Tail(a))
         ELSE <<Head(format)>> \o Sprintf(Tail(format), a)

\* ----------------------------------------------------------------- paths

RetrieveAllSnippetStorageMovesPath == <<"snippet_repository_storage_moves">>

RetrieveAllStorageMovesForSnippetPath(snippet) ==
    Sprintf(<<"snippets/", "%d", "/repository_storage_moves">>, <<snippet>>)

GetSnippetStorageMovePath(repositoryStorage) ==
    Sprintf(<<"snippet_repository_storage_moves/", "%d">>, <<repositoryStorage>>)

GetStorageMoveForSnippetPathSwapped(snippet, repositoryStorage) ==
    Sprintf(<<"snippets/", "%d", "/repository_storage_moves/", "%d">>,
            <<repositoryStorage, snippet>>)

GetStorageMoveForSnippetPath(snippet, repositoryStorage) ==
    Sprintf(<<"snippets/", "%d", "/repository_storage_moves/", "%d">>,
            <<snippet, repositoryStorage>>)

ScheduleStorageMoveForSnippetPath(snippet) ==
    Sprintf(<<"snippets/", "%d", "/repository_storage_moves">>, <<snippet>>)

ScheduleAllSnippetStorageMovesPath == <<"snippet_repository_storage_moves">>

MethodGet == "GET"

MethodPost == "POST"

\* ------------------------------------------------------------- Go values

NoErr == "nil"

\* An address is an arena of the allocator and a place in it.
NilAddr == <<0, 0>>

NilResp == [isNil |-> TRUE, status |-> 0]

NilSlice == [isNil |-> TRUE, elems |-> <<>>]

NilTime == [isNil |-> TRUE, rfc3339 |-> ""]

\* The zero value of BasicSnippet.
ZeroBasicSnippet ==
    [ID |-> 0, Title |-> "", Description |-> "", Visibility |-> "",
     UpdatedAt |-> NilTime, CreatedAt |-> NilTime, ProjectID |-> 0,
     WebURL |-> "", RawURL |-> "", SshUrlToRepo |-> "", HttpUrlToRepo |-> ""]

\* The zero value of SnippetRepositoryStorageMove, what new() yields.
ZeroSnippetRepositoryStorageMove ==
    [ID |-> 0, CreatedAt |-> NilTime, State |-> "", SourceStorageName |-> "",
     DestinationStorageName |-> "", Snippet |-> ZeroBasicSnippet]

\* ------------------------------------------------------------------ JSON

JNull == [t |-> "null"]

JNum(n) == [t |-> "num", n |-> n]

JStr(s) == [t |-> "str", s |-> s]

JObj(f) == [t |-> "obj", f |-> f]

JArr(a) == [t |-> "arr", a |-> a]

\* Response bodies the remote service may send, by name.  MoveA and MoveB
\* follow the documented example record; all their values differ.
JSnippetA ==
    JObj(("id" :> JNum(65)) @@ ("title" :> JStr("Test Snippet"))
      @@ ("description" :> JNull) @@ ("visibility" :> JStr("internal"))
      @@ ("updated_at" :> JStr("2020-12-01T11:15:50.385Z"))
      @@ ("created_at" :> JStr("2020-12-01T11:15:50.335Z"))
      @@ ("project_id" :> JNull)
      @@ ("web_url" :> JStr("https://gitlab.example.com/-/snippets/65"))
      @@ ("raw_url" :> JStr("https://gitlab.example.com/-/snippets/65/raw"))
      @@ ("ssh_url_to_repo" :> JStr("ssh://user@gitlab.example.com/snippets/65.git"))
      @@ ("http_url_to_repo" :> JStr("https://gitlab.example.com/snippets/65.git")))

JSnippetB ==
    JObj(("id" :> JNum(11)) @@ ("title" :> JStr("Other"))
      @@ ("description" :> JStr("second snippet")) @@ ("visibility" :> JStr("private"))
      @@ ("project_id" :> JNum(9))
      @@ ("web_url" :> JStr("https://gitlab.example.com/g/p/-/snippets/11"))
      @@ ("raw_url" :> JStr("https://gitlab.example.com/g/p/-/snippets/11/raw"))
      @@ ("ssh_url_to_repo" :> JStr("ssh://user@gitlab.example.com/g/p/snippets/11.git"))
      @@ ("http_url_to_repo" :> JStr("https://gitlab.example.com/g/p/snippets/11.git"))
      @@ ("unknown_key" :> JNum(3)))

JMoveA ==
    JObj(("id" :> JNum(1)) @@ ("created_at" :> JStr("2020-05-07T04:27:17.234Z"))
      @@ ("state" :> JStr("scheduled"))
      @@ ("source_storage_name" :> JStr("default"))
      @@ ("destination_storage_name" :> JStr("storage2"))
      @@ ("snippet" :> JSnippetA))

JMoveB ==
    JObj(("id" :> JNum(2)) @@ ("created_at" :> JNull)
      @@ ("state" :> JStr("finished"))
      @@ ("source_storage_name" :> JStr("storage1"))
      @@ ("destination_storage_name" :> JStr("storage3"))
      @@ ("snippet" :> JSnippetB))

\* A record whose id and snippet have the wrong JSON type.
JMoveBadType ==
    JObj(("id" :> JStr("one")) @@ ("state" :> JStr("failed"))
      @@ ("source_storage_name" :> JStr("default"))
      @@ ("snippet" :> JNum(5)))

JsonBodies ==
    {"null", "object", "objectB", "emptyObject", "badTypeObject",
     "emptyArray", "arrayA", "arrayAB", "arrayBA", "arrayNullElem",
     "arrayBadElem"}

\* Bodies that do not hold one JSON value: nothing at all, or broken text.
Bodies == JsonBodies \cup {"empty", "malformed"}

JsonOf(body) ==
    CASE body = "null" -> JNull
      [] body = "object" -> JMoveA
      [] body = "objectB" -> JMoveB
      [] body = "emptyObject" -> JObj(<<>>)
      [] body = "badTypeObject" -> JMoveBadType
      [] body = "emptyArray" -> JArr(<<>>)
      [] body = "arrayA" -> JArr(<<JMoveA>>)
      [] body = "arrayAB" -> JArr(<<JMoveA, JMoveB>>)
      [] body = "arrayBA" -> JArr(<<JMoveB, JMoveA>>)
      [] body = "arrayNullElem" -> JArr(<<JMoveB, JNull>>)
      [] body = "arrayBadElem" -> JArr(<<JMoveA, JNum(4), JMoveBadType>>)

\* ---------------------------------------------- decoding by struct tags

ErrUnmarshalType == "json: cannot unmarshal into Go value"

ErrSyntax == "json: invalid character"

ErrEOF == "EOF"

Has(obj, key) == key \in DOMAIN obj.f

\* A field of type int under JSON key `key`: a number is stored, null and a
\* missing key leave the field as it was, anything else is a type error and
\* leaves the field as it was.
IntField(old, obj, key) ==
    IF Has(obj, key) /\ obj.f[key].t = "num" THEN obj.f[key].n ELSE old

StringField(old, obj, key) ==
    IF Has(obj, key) /\ obj.f[key].t = "str" THEN obj.f[key].s ELSE old

\* A field of type *time.Time: null stores nil, a timestamp string stores a
\* pointer to the parsed time.
TimeField(old, obj, key) ==
    IF ~Has(obj, key) THEN old
    ELSE IF obj.f[key].t = "null" THEN NilTime
    ELSE IF obj.f[key].t = "str" THEN [isNil |-> FALSE, rfc3339 |-> obj.f[key].s]
    ELSE old

Mismatch(obj, key, type) ==
    Has(obj, key) /\ obj.f[key].t # "null" /\ obj.f[key].t # type

\* json tags of BasicSnippet.
DecodeBasicSnippet(old, obj) ==
    [ID            |-> IntField(old.ID, obj, "id"),
     Title         |-> StringField(old.Title, obj, "title"),
     Description   |-> StringField(old.Description, obj, "description"),
     Visibility    |-> StringField(old.Visibility, obj, "visibility"),
     UpdatedAt     |-> TimeField(old.UpdatedAt, obj, "updated_at"),
     CreatedAt     |-> TimeField(old.CreatedAt, obj, "created_at"),
     ProjectID     |-> IntField(old.ProjectID, obj, "project_id"),
     WebURL        |-> StringField(old.WebURL, obj, "web_url"),
     RawURL        |-> StringField(old.RawURL, obj, "raw_url"),
     SshUrlToRepo  |-> StringField(old.SshUrlToRepo, obj, "ssh_url_to_repo"),
     HttpUrlToRepo |-> StringField(old.HttpUrlToRepo, obj, "http_url_to_repo")]

BasicSnippetMismatch(obj) ==
    \/ \E k \in {"id", "project_id"} : Mismatch(obj, k, "num")
    \/ \E k \in {"title", "description", "visibility", "web_url", "raw_url",
                 "ssh_url_to_repo", "http_url_to_repo"} : Mismatch(obj, k, "str")

DecodeSnippetRepositoryStorageMoveSwapped(old, obj) ==
    [ID                     |-> IntField(old.ID, obj, "id"),
     CreatedAt              |-> TimeField(old.CreatedAt, obj, "created_at"),
     State                  |-> StringField(old.State, obj, "state"),
     SourceStorageName      |->
         StringField(old.SourceStorageName, obj, "destination_storage_name"),
     DestinationStorageName |->
         StringField(old.DestinationStorageName, obj, "source_storage_name"),
     Snippet                |->
         IF Has(obj, "snippet") /\ obj.f["snippet"].t = "obj"
         THEN DecodeBasicSnippet(old.Snippet, obj.f["snippet"])
         ELSE old.Snippet]

\* json tags of SnippetRepositoryStorageMove.
DecodeSnippetRepositoryStorageMove(old, obj) ==
    [ID                     |-> IntField(old.ID, obj, "id"),
     CreatedAt              |-> TimeField(old.CreatedAt, obj, "created_at"),
     State                  |-> StringField(old.State, obj, "state"),
     SourceStorageName      |->
         StringField(old.SourceStorageName, obj, "source_storage_name"),
     DestinationStorageName |->
         StringField(old.DestinationStorageName, obj, "destination_storage_name"),
     Snippet                |->
         IF Has(obj, "snippet") /\ obj.f["snippet"].t = "obj"
         THEN DecodeBasicSnippet(old.Snippet, obj.f["snippet"])
         ELSE old.Snippet]

SnippetRepositoryStorageMoveMismatch(obj) ==
    \/ Mismatch(obj, "id", "num")
    \/ \E k \in {"state", "source_storage_name", "destination_storage_name"} :
          Mismatch(obj, k, "str")
    \/ Mismatch(obj, "snippet", "obj")
    \/ Has(obj, "snippet") /\ obj.f["snippet"].t = "obj"
         /\ BasicSnippetMismatch(obj.f["snippet"])

\* ------------------------------------------------------------------ heap

\* A heap cell holds a SnippetRepositoryStorageMove, the slice variable
\* `ssms`, or the pointer variable `ssm` of ScheduleAllSnippetStorageMoves.
StructCell(m) == [kind |-> "struct", move |-> m]

SliceCell(sl) == [kind |-> "slice", slice |-> sl]

PtrCell(a) == [kind |-> "ptr", ptr |-> a]

\* The allocator: the lowest place of the arena that holds no live cell.
\* Every invocation allocates in the arena of its own slot.
NewAddr(h, arena) ==
    LET k == CHOOSE k \in 1..(Cardinality(DOMAIN h) + 1) :
                 /\ <<arena, k>> \notin DOMAIN h
                 /\ \A b \in 1..(k - 1) : <<arena, b>> \in DOMAIN h
    IN <<arena, k>>

Store(h, a, cell) == [x \in DOMAIN h \cup {a} |-> IF x = a THEN cell ELSE h[x]]

\* One element of a JSON array decoded into a []*SnippetRepositoryStorageMove:
\* null is a nil pointer; for anything else a record is allocated, and filled
\* when the element is an object.
DecodeElem(h, arena, e) ==
    IF e.t = "null" THEN [heap |-> h, ptr |-> NilAddr, err |-> NoErr]
    ELSE LET a == NewAddr(h, arena) IN
         IF e.t = "obj"
         THEN [heap |-> Store(h, a, StructCell(
                           DecodeSnippetRepositoryStorageMove(
                               ZeroSnippetRepositoryStorageMove, e))),
               ptr  |-> a,
               err  |-> IF SnippetRepositoryStorageMoveMismatch(e)
                        THEN ErrUnmarshalType ELSE NoErr]
         ELSE [heap |-> Store(h, a, StructCell(ZeroSnippetRepositoryStorageMove)),
               ptr  |-> a,
               err  |-> ErrUnmarshalType]

RECURSIVE DecodeArray(_, _, _, _, _)
DecodeArray(h, arena, elems, arr, err) ==
    IF arr = <<>> THEN [heap |-> h, elems |-> elems, err |-> err]
    ELSE LET d == DecodeElem(h, arena, Head(arr)) IN
         DecodeArray(d.heap, arena, Append(elems, d.ptr), Tail(arr),
                     IF err # NoErr THEN err ELSE d.err)

\* json.Decoder.Decode of one JSON value j into the cell at address v.  A
\* type mismatch is remembered and decoding goes on, so what was decoded
\* before and after it stays in the target.
Decode(h, v, j) ==
    LET cell == h[v] IN
    CASE cell.kind = "struct" ->
           IF j.t = "obj"
           THEN [heap |-> Store(h, v, StructCell(
                             DecodeSnippetRepositoryStorageMove(cell.move, j))),
                 err  |-> IF SnippetRepositoryStorageMoveMismatch(j)
                          THEN ErrUnmarshalType ELSE NoErr]
           ELSE [heap |-> h,
                 err  |-> IF j.t = "null" THEN NoErr ELSE ErrUnmarshalType]
      [] cell.kind = "slice" ->
           IF j.t = "arr"
           THEN LET d == DecodeArray(h, v[1], <<>>, j.a, NoErr) IN
                [heap |-> Store(d.heap, v,
                                SliceCell([isNil |-> FALSE, elems |-> d.elems])),
                 err  |-> d.err]
           ELSE IF j.t = "null"
           THEN [heap |-> Store(h, v, SliceCell(NilSlice)), err |-> NoErr]
           ELSE [heap |-> h, err |-> ErrUnmarshalType]
      [] cell.kind = "ptr" ->
           IF j.t = "null"
           THEN [heap |-> Store(h, v, PtrCell(NilAddr)), err |-> NoErr]
           ELSE LET a  == IF cell.ptr = NilAddr THEN NewAddr(h, v[1]) ELSE cell.ptr
                    m0 == IF cell.ptr = NilAddr
                          THEN ZeroSnippetRepositoryStorageMove
                          ELSE h[a].move
                    h1 == Store(Store(h, a, StructCell(m0)), v, PtrCell(a))
                IN IF j.t = "obj"
                   THEN [heap |-> Store(h1, a, StructCell(
                                     DecodeSnippetRepositoryStorageMove(m0, j))),
                         err  |-> IF SnippetRepositoryStorageMoveMismatch(j)
                                  THEN ErrUnmarshalType ELSE NoErr]
                   ELSE [heap |-> h1, err |-> ErrUnmarshalType]

\* ------------------------------------------------------- request options

NilOpt ==
    [type |-> "nil", Page |-> 0, PerPage |-> 0,
     SourceStorageName |-> "", DestinationStorageName |-> ""]

\* RetrieveAllSnippetStorageMovesOptions, a ListOptions.
ListOpt(page, perPage) ==
    [type |-> "RetrieveAllSnippetStorageMovesOptions", Page |-> page,
     PerPage |-> perPage, SourceStorageName |-> "",
     DestinationStorageName |-> ""]

ScheduleOpt(src, dst) ==
    [type |-> "ScheduleSnippetStorageMoveOptions", Page |-> 0, PerPage |-> 0,
     SourceStorageName |-> src, DestinationStorageName |-> dst]

MarshalScheduleSnippetStorageMoveOptionsKeepEmpty(opts) ==
    {<<"source_storage_name", opts.SourceStorageName>>,
     <<"destination_storage_name", opts.DestinationStorageName>>}

\* json.Marshal by the struct tags of ScheduleSnippetStorageMoveOptions: the
\* members of the JSON object, as (key, value) pairs.
MarshalScheduleSnippetStorageMoveOptions(opts) ==
    {<<"source_storage_name", opts.SourceStorageName>> :
        x \in IF opts.SourceStorageName = "" THEN {} ELSE {1}}
    \cup
    {<<"destination_storage_name", opts.DestinationStorageName>> :
        x \in IF opts.DestinationStorageName = "" THEN {} ELSE {1}}

\* ---------------------------------------------------------------- client

NilReq ==
    [isNil |-> TRUE, method |-> "", url |-> <<>>, query |-> {}, body |-> {}]

TheClient == [baseURL |-> "https://gitlab.example.com/api/v4/"]

\* query.Values of a ListOptions: page and per_page, omitted when zero.
ListQuery(opt) ==
    {<<"page", opt.Page>> : x \in IF opt.Page = 0 THEN {} ELSE {1}}
    \cup {<<"per_page", opt.PerPage>> : x \in IF opt.PerPage = 0 THEN {} ELSE {1}}

\* Client.NewRequest(method, path, opt, options).  `fail` is the error that
\* building the request runs into (an option function that fails, a URL
\* that does not parse), NoErr when there is none.  Options go into the
\* JSON body of a POST and into the query string of a GET.
NewRequest(c, method, path, opt, fail) ==
    IF fail # NoErr THEN [req |-> NilReq, err |-> fail]
    ELSE [req |-> [isNil  |-> FALSE,
                   method |-> method,
                   url    |-> <<c.baseURL>> \o path,
                   query  |-> IF method = MethodGet
                                 /\ opt.type = "RetrieveAllSnippetStorageMovesOptions"
                              THEN ListQuery(opt) ELSE {},
                   body   |-> IF method = MethodPost
                                 /\ opt.type = "ScheduleSnippetStorageMoveOptions"
                              THEN MarshalScheduleSnippetStorageMoveOptions(opt)
                              ELSE {}],
          err |-> NoErr]

Response(status) == [isNil |-> FALSE, status |-> status]

\* What can happen to a request that was sent.
Outcome(kind, status, body, err, eofIsError) ==
    [kind |-> kind, status |-> status, body |-> body, err |-> err,
     eofIsError |-> eofIsError]

\* Client.Do(req, v): no response at all (transport), a response the client
\* rejects for its status, or a response whose body is decoded into v.  An
\* empty body makes the decoder report EOF, which the client may pass on or
\* take for "nothing to decode".
Do(h, req, v, o) ==
    CASE o.kind = "transport" -> [resp |-> NilResp, err |-> o.err, heap |-> h]
      [] o.kind = "status" -> [resp |-> Response(o.status), err |-> o.err, heap |-> h]
      [] o.kind = "ok" ->
           IF o.body = "empty"
           THEN [resp |-> Response(o.status),
                 err  |-> IF o.eofIsError THEN ErrEOF ELSE NoErr,
                 heap |-> h]
           ELSE IF o.body = "malformed"
           THEN [resp |-> Response(o.status), err |-> ErrSyntax, heap |-> h]
           ELSE LET d == Decode(h, v, JsonOf(o.body)) IN
                [resp |-> Response(o.status), err |-> d.err, heap |-> d.heap]

\* ---------------------------------------------------- environment's inputs

NewRequestErrors == {"parse: invalid URL", "option: context is nil"}

NewRequestResults == {NoErr} \cup NewRequestErrors

DoOutcomes ==
    {Outcome("transport", 0, "empty", e, FALSE) :
        e \in {"dial tcp: connection refused", "context deadline exceeded"}}
    \cup {Outcome("status", 404, "empty", "404 Not Found", FALSE),
          Outcome("status", 400, "empty", "400 Bad Request", FALSE)}
    \cup {Outcome("ok", 200, b, NoErr, TRUE) : b \in Bodies}
    \cup {Outcome("ok", 204, "empty", NoErr, FALSE)}

ConcDoOutcomes ==
    {Outcome("transport", 0, "empty", "context deadline exceeded", FALSE),
     Outcome("ok", 200, "object", NoErr, TRUE),
     Outcome("ok", 200, "objectB", NoErr, TRUE),
     Outcome("ok", 200, "arrayBA", NoErr, TRUE)}

ListOpts == {ListOpt(0, 0), ListOpt(2, 20)}

StorageNames == {"", "default", "storage2"}

ScheduleOpts == {ScheduleOpt(a, b) : a, b \in StorageNames}

\* ----------------------------------------------------------------- state

VARIABLES
    pc,      \* slot -> "idle", "Do" (the request is out) or "returned"
    call,    \* slot -> the method invoked and its arguments
    frame,   \* slot -> the invocation's locals and what it asked of the client
    ret,     \* slot -> the values returned to the caller
    heap,    \* address -> cell
    client   \* the *Client all invocations share

vars == <<pc, call, frame, ret, heap, client>>

NoCall == [op |-> "", snippet |-> 0, repositoryStorage |-> 0, opts |-> NilOpt]

Invocation(op, snippet, repositoryStorage, opts) ==
    [op |-> op, snippet |-> snippet, repositoryStorage |-> repositoryStorage,
     opts |-> opts]

NoFrame ==
    [newRequestArgs |-> [method |-> "", path |-> <<>>, opt |-> NilOpt],
     newRequestRet  |-> [req |-> NilReq, err |-> NoErr],
     doArgs         |-> [req |-> NilReq, v |-> NilAddr],
     doRet          |-> [resp |-> NilResp, err |-> NoErr],
     outcome        |-> Outcome("", 0, "empty", NoErr, FALSE),
     local          |-> NilAddr,
     trace          |-> <<>>,
     cells          |-> {}]

\* The frame once s.client.NewRequest(method, u, opt, options) has returned n.
AfterNewRequest(method, u, opt, n) ==
    [NoFrame EXCEPT !.newRequestArgs = [method |-> method, path |-> u, opt |-> opt],
                    !.newRequestRet = n,
                    !.trace = <<"NewRequest">>]

\* The frame once s.client.Do(req, v) was called; `local` is the address of
\* the method's variable ssm or ssms.
CallingDo(f, req, v, local) ==
    [f EXCEPT !.doArgs = [req |-> req, v |-> v],
              !.local = local,
              !.trace = Append(@, "Do"),
              !.cells = @ \cup {local}]

\* The frame once s.client.Do has returned d for the outcome o.
AfterDo(f, h, d, o) ==
    [f EXCEPT !.doRet = [resp |-> d.resp, err |-> d.err],
              !.outcome = o,
              !.cells = @ \cup (DOMAIN d.heap \ DOMAIN h)]

\* The method returns r to its caller.
Return(i, c, f, h, r) ==
    /\ pc' = [pc EXCEPT ![i] = "returned"]
    /\ call' = [call EXCEPT ![i] = c]
    /\ frame' = [frame EXCEPT ![i] = f]
    /\ ret' = [ret EXCEPT ![i] = r]
    /\ heap' = h
    /\ UNCHANGED client

\* The method waits for s.client.Do to come back.
Await(i, c, f, h) ==
    /\ pc' = [pc EXCEPT ![i] = "Do"]
    /\ call' = [call EXCEPT ![i] = c]
    /\ frame' = [frame EXCEPT ![i] = f]
    /\ heap' = h
    /\ UNCHANGED <<ret, client>>

\* A record taken from a pool of live records when there is one.
NewSnippetRepositoryStorageMovePooled(h, arena) ==
    IF \E a \in DOMAIN h : h[a].kind = "struct"
    THEN CHOOSE a \in DOMAIN h : h[a].kind = "struct"
    ELSE NewAddr(h, arena)

\* new(SnippetRepositoryStorageMove): the address of a fresh record.
NewSnippetRepositoryStorageMove(h, arena) == NewAddr(h, arena)

\* ----------------------------------------- RetrieveAllSnippetStorageMoves

\* The method with the check of NewRequest's error left out.
RetrieveAllSnippetStorageMovesUnchecked(i, opts, nr) ==
    LET c    == Invocation("RetrieveAllSnippetStorageMoves", 0, 0, opts)
        u    == RetrieveAllSnippetStorageMovesPath
        n    == NewRequest(client, MethodGet, u, opts, nr)
        f    == AfterNewRequest(MethodGet, u, opts, n)
        ssms == NewAddr(heap, i)
    IN /\ pc[i] = "idle"
       /\ Await(i, c, CallingDo(f, n.req, ssms, ssms),
                Store(heap, ssms, SliceCell(NilSlice)))

RetrieveAllSnippetStorageMoves(i, opts, nr) ==
    LET c    == Invocation("RetrieveAllSnippetStorageMoves", 0, 0, opts)
        u    == RetrieveAllSnippetStorageMovesPath
        n    == NewRequest(client, MethodGet, u, opts, nr)
        f    == AfterNewRequest(MethodGet, u, opts, n)
        ssms == NewAddr(heap, i)
    IN /\ pc[i] = "idle"
       /\ IF n.err # NoErr
          THEN Return(i, c, f, heap, <<NilSlice, NilResp, n.err>>)
          ELSE Await(i, c, CallingDo(f, n.req, ssms, ssms),
                     Store(heap, ssms, SliceCell(NilSlice)))

RetrieveAllSnippetStorageMovesDo(i, o) ==
    LET f == frame[i]
        d == Do(heap, f.doArgs.req, f.doArgs.v, o)
    IN /\ pc[i] = "Do"
       /\ call[i].op = "RetrieveAllSnippetStorageMoves"
       /\ Return(i, call[i], AfterDo(f, heap, d, o), d.heap,
                 IF d.err # NoErr
                 THEN <<NilSlice, d.resp, d.err>>
                 ELSE <<d.heap[f.local].slice, d.resp, d.err>>)

\* -------------------------------------- RetrieveAllStorageMovesForSnippet

RetrieveAllStorageMovesForSnippet(i, snippet, opts, nr) ==
    LET c    == Invocation("RetrieveAllStorageMovesForSnippet", snippet, 0, opts)
        u    == RetrieveAllStorageMovesForSnippetPath(snippet)
        n    == NewRequest(client, MethodGet, u, opts, nr)
        f    == AfterNewRequest(MethodGet, u, opts, n)
        ssms == NewAddr(heap, i)
    IN /\ pc[i] = "idle"
       /\ IF n.err # NoErr
          THEN Return(i, c, f, heap, <<NilSlice, NilResp, n.err>>)
          ELSE Await(i, c, CallingDo(f, n.req, ssms, ssms),
                     Store(heap, ssms, SliceCell(NilSlice)))

RetrieveAllStorageMovesForSnippetDo(i, o) ==
    LET f == frame[i]
        d == Do(heap, f.doArgs.req, f.doArgs.v, o)
    IN /\ pc[i] = "Do"
       /\ call[i].op = "RetrieveAllStorageMovesForSnippet"
       /\ Return(i, call[i], AfterDo(f, heap, d, o), d.heap,
                 IF d.err # NoErr
                 THEN <<NilSlice, d.resp, d.err>>
                 ELSE <<d.heap[f.local].slice, d.resp, d.err>>)

\* -------------------------------------------------- GetSnippetStorageMove

GetSnippetStorageMove(i, repositoryStorage, nr) ==
    LET c   == Invocation("GetSnippetStorageMove", 0, repositoryStorage, NilOpt)
        u   == GetSnippetStorageMovePath(repositoryStorage)
        n   == NewRequest(client, MethodGet, u, NilOpt, nr)
        f   == AfterNewRequest(MethodGet, u, NilOpt, n)
        ssm == NewSnippetRepositoryStorageMove(heap, i)
    IN /\ pc[i] = "idle"
       /\ IF n.err # NoErr
          THEN Return(i, c, f, heap, <<NilAddr, NilResp, n.err>>)
          ELSE Await(i, c, CallingDo(f, n.req, ssm, ssm),
                     Store(heap, ssm, StructCell(ZeroSnippetRepositoryStorageMove)))

\* The method returning ssm whatever client.Do reported.
GetSnippetStorageMoveDoKeepsRecord(i, o) ==
    LET f == frame[i]
        d == Do(heap, f.doArgs.req, f.doArgs.v, o)
    IN /\ pc[i] = "Do"
       /\ call[i].op = "GetSnippetStorageMove"
       /\ Return(i, call[i], AfterDo(f, heap, d, o), d.heap,
                 <<f.local, d.resp, d.err>>)

GetSnippetStorageMoveDo(i, o) ==
    LET f == frame[i]
        d == Do(heap, f.doArgs.req, f.doArgs.v, o)
    IN /\ pc[i] = "Do"
       /\ call[i].op = "GetSnippetStorageMove"
       /\ Return(i, call[i], AfterDo(f, heap, d, o), d.heap,
                 IF d.err # NoErr
                 THEN <<NilAddr, d.resp, d.err>>
                 ELSE <<f.local, d.resp, d.err>>)

\* ----------------------------------------------- GetStorageMoveForSnippet

\* The method refusing identifiers that are not positive.
GetStorageMoveForSnippetValidating(i, snippet, repositoryStorage, nr) ==
    LET c   == Invocation("GetStorageMoveForSnippet", snippet, repositoryStorage,
                          NilOpt)
        u   == GetStorageMoveForSnippetPath(snippet, repositoryStorage)
        n   == NewRequest(client, MethodGet, u, NilOpt, nr)
        f   == AfterNewRequest(MethodGet, u, NilOpt, n)
        ssm == NewSnippetRepositoryStorageMove(heap, i)
    IN /\ pc[i] = "idle"
       /\ IF snippet <= 0 \/ repositoryStorage <= 0
          THEN Return(i, c, NoFrame, heap, <<NilAddr, NilResp, "invalid id">>)
          ELSE IF n.err # NoErr
          THEN Return(i, c, f, heap, <<NilAddr, NilResp, n.err>>)
          ELSE Await(i, c, CallingDo(f, n.req, ssm, ssm),
                     Store(heap, ssm, StructCell(ZeroSnippetRepositoryStorageMove)))

GetStorageMoveForSnippet(i, snippet, repositoryStorage, nr) ==
    LET c   == Invocation("GetStorageMoveForSnippet", snippet, repositoryStorage,
                          NilOpt)
        u   == GetStorageMoveForSnippetPath(snippet, repositoryStorage)
        n   == NewRequest(client, MethodGet, u, NilOpt, nr)
        f   == AfterNewRequest(MethodGet, u, NilOpt, n)
        ssm == NewSnippetRepositoryStorageMove(heap, i)
    IN /\ pc[i] = "idle"
       /\ IF n.err # NoErr
          THEN Return(i, c, f, heap, <<NilAddr, NilResp, n.err>>)
          ELSE Await(i, c, CallingDo(f, n.req, ssm, ssm),
                     Store(heap, ssm, StructCell(ZeroSnippetRepositoryStorageMove)))

\* The method returning a nil record whatever client.Do reported.
GetStorageMoveForSnippetDoDropsRecord(i, o) ==
    LET f == frame[i]
        d == Do(heap, f.doArgs.req, f.doArgs.v, o)
    IN /\ pc[i] = "Do"
       /\ call[i].op = "GetStorageMoveForSnippet"
       /\ Return(i, call[i], AfterDo(f, heap, d, o), d.heap,
                 <<NilAddr, d.resp, d.err>>)

GetStorageMoveForSnippetDo(i, o) ==
    LET f == frame[i]
        d == Do(heap, f.doArgs.req, f.doArgs.v, o)
    IN /\ pc[i] = "Do"
       /\ call[i].op = "GetStorageMoveForSnippet"
       /\ Return(i, call[i], AfterDo(f, heap, d, o), d.heap,
                 IF d.err # NoErr
                 THEN <<NilAddr, d.resp, d.err>>
                 ELSE <<f.local, d.resp, d.err>>)

\* ------------------------------------------ ScheduleStorageMoveForSnippet

ScheduleStorageMoveForSnippet(i, snippet, opts, nr) ==
    LET c   == Invocation("ScheduleStorageMoveForSnippet", snippet, 0, opts)
        u   == ScheduleStorageMoveForSnippetPath(snippet)
        n   == NewRequest(client, MethodPost, u, opts, nr)
        f   == AfterNewRequest(MethodPost, u, opts, n)
        ssm == NewSnippetRepositoryStorageMove(heap, i)
    IN /\ pc[i] = "idle"
       /\ IF n.err # NoErr
          THEN Return(i, c, f, heap, <<NilAddr, NilResp, n.err>>)
          ELSE Await(i, c, CallingDo(f, n.req, ssm, ssm),
                     Store(heap, ssm, StructCell(ZeroSnippetRepositoryStorageMove)))

\* The method sending the request once more when client.Do failed.
ScheduleStorageMoveForSnippetDoRetrying(i, o) ==
    LET f == frame[i]
        d == Do(heap, f.doArgs.req, f.doArgs.v, o)
    IN /\ pc[i] = "Do"
       /\ call[i].op = "ScheduleStorageMoveForSnippet"
       /\ IF d.err # NoErr /\ Len(f.trace) < 3
          THEN Await(i, call[i],
                     CallingDo(AfterDo(f, heap, d, o), f.doArgs.req, f.doArgs.v,
                               f.local),
                     d.heap)
          ELSE Return(i, call[i], AfterDo(f, heap, d, o), d.heap,
                      IF d.err # NoErr
                      THEN <<NilAddr, d.resp, d.err>>
                      ELSE <<f.local, d.resp, d.err>>)

ScheduleStorageMoveForSnippetDo(i, o) ==
    LET f == frame[i]
        d == Do(heap, f.doArgs.req, f.doArgs.v, o)
    IN /\ pc[i] = "Do"
       /\ call[i].op = "ScheduleStorageMoveForSnippet"
       /\ Return(i, call[i], AfterDo(f, heap, d, o), d.heap,
                 IF d.err # NoErr
                 THEN <<NilAddr, d.resp, d.err>>
                 ELSE <<f.local, d.resp, d.err>>)

\* ----------------------------------------- ScheduleAllSnippetStorageMoves

ScheduleAllSnippetStorageMoves(i, opts, nr) ==
    LET c   == Invocation("ScheduleAllSnippetStorageMoves", 0, 0, opts)
        u   == ScheduleAllSnippetStorageMovesPath
        n   == NewRequest(client, MethodPost, u, opts, nr)
        f   == AfterNewRequest(MethodPost, u, opts, n)
        ssm == NewAddr(heap, i)
    IN /\ pc[i] = "idle"
       /\ IF n.err # NoErr
          THEN Return(i, c, f, heap, <<NilResp, n.err>>)
          ELSE Await(i, c, CallingDo(f, n.req, ssm, ssm),
                     Store(heap, ssm, PtrCell(NilAddr)))

\* The method handing the decoded record to the caller as well.
ScheduleAllSnippetStorageMovesDoExposing(i, o) ==
    LET f == frame[i]
        d == Do(heap, f.doArgs.req, f.doArgs.v, o)
    IN /\ pc[i] = "Do"
       /\ call[i].op = "ScheduleAllSnippetStorageMoves"
       /\ Return(i, call[i], AfterDo(f, heap, d, o), d.heap,
                 IF d.err # NoErr
                 THEN <<NilAddr, d.resp, d.err>>
                 ELSE <<d.heap[f.local].ptr, d.resp, d.err>>)

ScheduleAllSnippetStorageMovesDo(i, o) ==
    LET f == frame[i]
        d == Do(heap, f.doArgs.req, f.doArgs.v, o)
    IN /\ pc[i] = "Do"
       /\ call[i].op = "ScheduleAllSnippetStorageMoves"
       /\ Return(i, call[i], AfterDo(f, heap, d, o), d.heap,
                 IF d.err # NoErr
                 THEN <<d.resp, d.err>>
                 ELSE <<d.resp, d.err>>)

\* ---------------------------------------------------------------- caller

\* The caller drops what an invocation returned; cells that no other
\* invocation refers to are collected.
Discard(i) ==
    LET kept == UNION {frame[j].cells : j \in Slots \ {i}} IN
    /\ pc[i] = "returned"
    /\ pc' = [pc EXCEPT ![i] = "idle"]
    /\ call' = [call EXCEPT ![i] = NoCall]
    /\ frame' = [frame EXCEPT ![i] = NoFrame]
    /\ ret' = [ret EXCEPT ![i] = <<>>]
    /\ heap' = [a \in DOMAIN heap \ (frame[i].cells \ kept) |-> heap[a]]
    /\ UNCHANGED client

\* -------------------------------------------------------- specifications

Init ==
    /\ pc = [i \in Slots |-> "idle"]
    /\ call = [i \in Slots |-> NoCall]
    /\ frame = [i \in Slots |-> NoFrame]
    /\ ret = [i \in Slots |-> <<>>]
    /\ heap = <<>>
    /\ client = TheClient

\* No invocation is in progress and no result is held.
Quiet == \A j \in Slots : pc[j] = "idle"

\* One invocation at a time, over the full range of inputs and outcomes.
Next ==
    \E i \in Slots :
        \/ \E o \in ListOpts, nr \in NewRequestResults :
               Quiet /\ RetrieveAllSnippetStorageMoves(i, o, nr)
        \/ \E s \in Ids, o \in ListOpts, nr \in NewRequestResults :
               Quiet /\ RetrieveAllStorageMovesForSnippet(i, s, o, nr)
        \/ \E id \in Ids, nr \in NewRequestResults :
               Quiet /\ GetSnippetStorageMove(i, id, nr)
        \/ \E s \in Ids, id \in Ids, nr \in NewRequestResults :
               Quiet /\ GetStorageMoveForSnippet(i, s, id, nr)
        \/ \E s \in Ids, o \in ScheduleOpts, nr \in NewRequestResults :
               Quiet /\ ScheduleStorageMoveForSnippet(i, s, o, nr)
        \/ \E o \in ScheduleOpts, nr \in NewRequestResults :
               Quiet /\ ScheduleAllSnippetStorageMoves(i, o, nr)
        \/ \E o \in DoOutcomes : RetrieveAllSnippetStorageMovesDo(i, o)
        \/ \E o \in DoOutcomes : RetrieveAllStorageMovesForSnippetDo(i, o)
        \/ \E o \in DoOutcomes : GetSnippetStorageMoveDo(i, o)
        \/ \E o \in DoOutcomes : GetStorageMoveForSnippetDo(i, o)
        \/ \E o \in DoOutcomes : ScheduleStorageMoveForSnippetDo(i, o)
        \/ \E o \in DoOutcomes : ScheduleAllSnippetStorageMovesDo(i, o)
        \/ Discard(i)

Spec == Init /\ [][Next]_vars

ConcListOpts == {ListOpt(2, 20)}

ConcScheduleOpts == {ScheduleOpt("default", "storage2")}

ConcNewRequestResults == {NoErr, "option: context is nil"}

\* Invocations interleaved at their network calls, over fewer inputs.
NextConc ==
    \E i \in Slots :
        \/ \E o \in ConcListOpts, nr \in ConcNewRequestResults :
               RetrieveAllSnippetStorageMoves(i, o, nr)
        \/ \E s \in ConcIds, o \in ConcListOpts, nr \in ConcNewRequestResults :
               RetrieveAllStorageMovesForSnippet(i, s, o, nr)
        \/ \E id \in ConcMoveIds, nr \in ConcNewRequestResults :
               GetSnippetStorageMove(i, id, nr)
        \/ \E s \in ConcIds, id \in ConcMoveIds, nr \in ConcNewRequestResults :
               GetStorageMoveForSnippet(i, s, id, nr)
        \/ \E s \in ConcIds, o \in ConcScheduleOpts, nr \in ConcNewRequestResults :
               ScheduleStorageMoveForSnippet(i, s, o, nr)
        \/ \E o \in ConcScheduleOpts, nr \in ConcNewRequestResults :
               ScheduleAllSnippetStorageMoves(i, o, nr)
        \/ \E o \in ConcDoOutcomes : RetrieveAllSnippetStorageMovesDo(i, o)
        \/ \E o \in ConcDoOutcomes : RetrieveAllStorageMovesForSnippetDo(i, o)
        \/ \E o \in ConcDoOutcomes : GetSnippetStorageMoveDo(i, o)
        \/ \E o \in ConcDoOutcomes : GetStorageMoveForSnippetDo(i, o)
        \/ \E o \in ConcDoOutcomes : ScheduleStorageMoveForSnippetDo(i, o)
        \/ \E o \in ConcDoOutcomes : ScheduleAllSnippetStorageMovesDo(i, o)
        \/ Discard(i)

SpecConc == Init /\ [][NextConc]_vars

\* ------------------------------------------------ reading a path back

NumTokens == {"-", "0", "1", "2", "3", "4", "5", "6", "7", "8", "9"}

RECURSIVE Join(_)
Join(p) == IF p = <<>> THEN "" ELSE Head(p) \o Join(Tail(p))

\* The maximal runs of sign and digit characters of a path, in order.
RECURSIVE NumRuns(_, _)
NumRuns(p, cur) ==
    IF p = <<>> THEN (IF cur = <<>> THEN <<>> ELSE <<cur>>)
    ELSE IF Head(p) \in NumTokens THEN NumRuns(Tail(p), Append(cur, Head(p)))
    ELSE (IF cur = <<>> THEN <<>> ELSE <<cur>>) \o NumRuns(Tail(p), <<>>)

\* The path with every such run replaced by the placeholder "{}".
RECURSIVE Template(_, _)
Template(p, inRun) ==
    IF p = <<>> THEN ""
    ELSE IF Head(p) \in NumTokens
         THEN (IF inRun THEN "" ELSE "{}") \o Template(Tail(p), TRUE)
         ELSE Head(p) \o Template(Tail(p), FALSE)

DigitValue(t) ==
    CASE t = "0" -> 0 [] t = "1" -> 1 [] t = "2" -> 2 [] t = "3" -> 3
      [] t = "4" -> 4 [] t = "5" -> 5 [] t = "6" -> 6 [] t = "7" -> 7
      [] t = "8" -> 8 [] t = "9" -> 9

RECURSIVE DigitsValue(_, _)
DigitsValue(ds, acc) ==
    IF ds = <<>> THEN acc ELSE DigitsValue(Tail(ds), 10 * acc + DigitValue(Head(ds)))

\* A run is the decimal form of n: an optional leading minus, then digits
\* without a leading zero (the single digit 0 excepted), whose value is n.
IsDecimalOf(run, n) ==
    LET neg  == run # <<>> /\ Head(run) = "-"
        digs == IF neg THEN Tail(run) ELSE run
    IN /\ digs # <<>>
       /\ \A k \in 1..Len(digs) : digs[k] # "-"
       /\ Len(digs) > 1 => digs[1] # "0"
       /\ neg => digs # <<"0">>
       /\ n = (IF neg THEN 0 - DigitsValue(digs, 0) ELSE DigitsValue(digs, 0))

\* The documented endpoints.
DocumentedMethod(op) ==
    IF op \in {"ScheduleStorageMoveForSnippet", "ScheduleAllSnippetStorageMoves"}
    THEN "POST" ELSE "GET"

DocumentedPath(op) ==
    CASE op = "RetrieveAllSnippetStorageMoves" -> "snippet_repository_storage_moves"
      [] op = "RetrieveAllStorageMovesForSnippet" -> "snippets/{}/repository_storage_moves"
      [] op = "GetSnippetStorageMove" -> "snippet_repository_storage_moves/{}"
      [] op = "GetStorageMoveForSnippet" -> "snippets/{}/repository_storage_moves/{}"
      [] op = "ScheduleStorageMoveForSnippet" -> "snippets/{}/repository_storage_moves"
      [] op = "ScheduleAllSnippetStorageMoves" -> "snippet_repository_storage_moves"

\* The caller's integers that the documented path names, in its order.
DocumentedOperands(c) ==
    CASE c.op \in {"RetrieveAllStorageMovesForSnippet",
                   "ScheduleStorageMoveForSnippet"} -> <<c.snippet>>
      [] c.op = "GetSnippetStorageMove" -> <<c.repositoryStorage>>
      [] c.op = "GetStorageMoveForSnippet" -> <<c.snippet, c.repositoryStorage>>
      [] OTHER -> <<>>

PathNames(path, operands) ==
    LET runs == NumRuns(path, <<>>) IN
    /\ Len(runs) = Len(operands)
    /\ \A k \in 1..Len(runs) : IsDecimalOf(runs[k], operands[k])

Called(i, fn) == \E k \in 1..Len(frame[i].trace) : frame[i].trace[k] = fn

Count(i, fn) == Cardinality({k \in 1..Len(frame[i].trace) : frame[i].trace[k] = fn})

SingleRecordOps ==
    {"GetSnippetStorageMove", "GetStorageMoveForSnippet",
     "ScheduleStorageMoveForSnippet"}

ListOps == {"RetrieveAllSnippetStorageMoves", "RetrieveAllStorageMovesForSnippet"}

\* --------------------------------------------------------------- claims

\* C1: whatever the inputs, every operation that has started handed
\* client.NewRequest the documented HTTP method and the documented path,
\* the snippet id and the move id printed in decimal, snippet first.
C1_MethodAndPath ==
    \A i \in Slots :
        pc[i] # "idle" =>
            /\ Called(i, "NewRequest")
            /\ frame[i].newRequestArgs.method = DocumentedMethod(call[i].op)
            /\ Template(frame[i].newRequestArgs.path, FALSE)
                   = DocumentedPath(call[i].op)
            /\ PathNames(frame[i].newRequestArgs.path, DocumentedOperands(call[i]))

C1_Witness ==
    \E i \in Slots :
        /\ pc[i] = "Do"
        /\ call[i].op = "GetStorageMoveForSnippet"
        /\ call[i].snippet = 42
        /\ call[i].repositoryStorage = 0 - 1
        /\ Join(frame[i].newRequestArgs.path) = "snippets/42/repository_storage_moves/-1"

\* C2: when client.NewRequest fails the operation has returned without
\* calling client.Do, the caller's error is NewRequest's error, and the
\* record (where there is one) and the response are nil.
C2_NewRequestFailure ==
    \A i \in Slots :
        (pc[i] # "idle" /\ frame[i].newRequestRet.err # NoErr) =>
            /\ pc[i] = "returned"
            /\ ~Called(i, "Do")
            /\ ret[i] = (IF call[i].op \in ListOps
                         THEN <<NilSlice, NilResp, frame[i].newRequestRet.err>>
                         ELSE IF call[i].op \in SingleRecordOps
                         THEN <<NilAddr, NilResp, frame[i].newRequestRet.err>>
                         ELSE <<NilResp, frame[i].newRequestRet.err>>)

C2_Witness ==
    \E i \in Slots :
        /\ pc[i] = "returned"
        /\ call[i].op = "RetrieveAllSnippetStorageMoves"
        /\ frame[i].newRequestRet.err = "parse: invalid URL"
        /\ ret[i] = <<NilSlice, NilResp, "parse: invalid URL">>
        /\ frame[i].trace = <<"NewRequest">>
        /\ heap = <<>>

\* C3: when client.Do reports an error, a record-returning operation
\* returns a nil record, that error, and the response client.Do returned.
C3_DoFailure ==
    \A i \in Slots :
        (pc[i] = "returned" /\ Called(i, "Do") /\ frame[i].doRet.err # NoErr
           /\ call[i].op \in SingleRecordOps \cup ListOps) =>
            ret[i] = <<IF call[i].op \in ListOps THEN NilSlice ELSE NilAddr,
                       frame[i].doRet.resp, frame[i].doRet.err>>

\* A decode error after the target was partly filled.
C3_Witness ==
    \E i \in Slots :
        /\ pc[i] = "returned"
        /\ call[i].op = "GetSnippetStorageMove"
        /\ frame[i].outcome.body = "badTypeObject"
        /\ heap[frame[i].local].move.State = "failed"
        /\ heap[frame[i].local].move.ID = 0
        /\ ret[i] = <<NilAddr, Response(200), ErrUnmarshalType>>

\* The record a response body "object" or "objectB" describes.
ExpectedMove(body) ==
    IF body = "object"
    THEN [ID |-> 1,
          CreatedAt |-> [isNil |-> FALSE, rfc3339 |-> "2020-05-07T04:27:17.234Z"],
          State |-> "scheduled", SourceStorageName |-> "default",
          DestinationStorageName |-> "storage2",
          Snippet |->
            [ID |-> 65, Title |-> "Test Snippet", Description |-> "",
             Visibility |-> "internal",
             UpdatedAt |-> [isNil |-> FALSE, rfc3339 |-> "2020-12-01T11:15:50.385Z"],
             CreatedAt |-> [isNil |-> FALSE, rfc3339 |-> "2020-12-01T11:15:50.335Z"],
             ProjectID |-> 0,
             WebURL |-> "https://gitlab.example.com/-/snippets/65",
             RawURL |-> "https://gitlab.example.com/-/snippets/65/raw",
             SshUrlToRepo |-> "ssh://user@gitlab.example.com/snippets/65.git",
             HttpUrlToRepo |-> "https://gitlab.example.com/snippets/65.git"]]
    ELSE [ID |-> 2, CreatedAt |-> NilTime,
          State |-> "finished", SourceStorageName |-> "storage1",
          DestinationStorageName |-> "storage3",
          Snippet |->
            [ID |-> 11, Title |-> "Other", Description |-> "second snippet",
             Visibility |-> "private", UpdatedAt |-> NilTime, CreatedAt |-> NilTime,
             ProjectID |-> 9,
             WebURL |-> "https://gitlab.example.com/g/p/-/snippets/11",
             RawURL |-> "https://gitlab.example.com/g/p/-/snippets/11/raw",
             SshUrlToRepo |-> "ssh://user@gitlab.example.com/g/p/snippets/11.git",
             HttpUrlToRepo |-> "https://gitlab.example.com/g/p/snippets/11.git"]]

\* C4: ScheduleAllSnippetStorageMoves returns the response and the error
\* and nothing else, whatever the body held; ScheduleStorageMoveForSnippet,
\* for a successful response carrying a record, returns that record.
C4_ScheduleAllReturnsNoRecord ==
    \A i \in Slots :
        pc[i] = "returned" =>
            /\ call[i].op = "ScheduleAllSnippetStorageMoves" =>
                 /\ Len(ret[i]) = 2
                 /\ ret[i][1] = (IF Called(i, "Do") THEN frame[i].doRet.resp
                                 ELSE NilResp)
                 /\ ret[i][2] = (IF Called(i, "Do") THEN frame[i].doRet.err
                                 ELSE frame[i].newRequestRet.err)
            /\ (call[i].op = "ScheduleStorageMoveForSnippet"
                  /\ Called(i, "Do") /\ frame[i].doRet.err = NoErr
                  /\ frame[i].outcome.body \in {"object", "objectB"}) =>
                 /\ Len(ret[i]) = 3
                 /\ ret[i][1] # NilAddr
                 /\ heap[ret[i][1]].move = ExpectedMove(frame[i].outcome.body)

\* The body held a record, it was decoded, and the caller did not get it.
C4_Witness ==
    \E i \in Slots :
        /\ pc[i] = "returned"
        /\ call[i].op = "ScheduleAllSnippetStorageMoves"
        /\ frame[i].outcome.body = "object"
        /\ heap[frame[i].local].ptr # NilAddr
        /\ heap[heap[frame[i].local].ptr].move = ExpectedMove("object")
        /\ ret[i] = <<Response(200), NoErr>>

\* C5: an invocation calls client.NewRequest once, and client.Do once when
\* NewRequest succeeded and not at all otherwise; once client.Do is back the
\* operation has returned.
C5_NoRetry ==
    \A i \in Slots :
        /\ pc[i] = "Do" => frame[i].trace = <<"NewRequest", "Do">>
        /\ pc[i] = "returned" =>
             /\ Count(i, "NewRequest") = 1
             /\ Count(i, "Do") <= 1
             /\ Count(i, "Do") = 1 <=> frame[i].newRequestRet.err = NoErr
             /\ Head(frame[i].trace) = "NewRequest"

\* client.Do failed and the operation returned after that one call.
C5_Witness ==
    \E i \in Slots :
        /\ pc[i] = "returned"
        /\ call[i].op = "ScheduleStorageMoveForSnippet"
        /\ frame[i].doRet.err = "context deadline exceeded"
        /\ frame[i].trace = <<"NewRequest", "Do">>

ScheduleOps == {"ScheduleStorageMoveForSnippet", "ScheduleAllSnippetStorageMoves"}

Members(body, key) == {p \in body : p[1] = key}

\* C6: in the body of a scheduling request an option that is the empty
\* string has no member, an option that is not has one member under its
\* snake_case key holding the caller's value, and there are no others.
C6_OmitEmpty ==
    \A i \in Slots :
        (pc[i] # "idle" /\ call[i].op \in ScheduleOps
           /\ frame[i].newRequestRet.err = NoErr) =>
            LET body == frame[i].newRequestRet.req.body
                o    == call[i].opts
            IN /\ frame[i].newRequestArgs.opt = o
               /\ Members(body, "source_storage_name")
                    = (IF o.SourceStorageName = "" THEN {}
                       ELSE {<<"source_storage_name", o.SourceStorageName>>})
               /\ Members(body, "destination_storage_name")
                    = (IF o.DestinationStorageName = "" THEN {}
                       ELSE {<<"destination_storage_name", o.DestinationStorageName>>})
               /\ \A p \in body :
                      p[1] \in {"source_storage_name", "destination_storage_name"}
               /\ (o.SourceStorageName = "" /\ o.DestinationStorageName = "")
                      => body = {}

\* One option set, the other empty.
C6_Witness ==
    \E i \in Slots :
        /\ pc[i] = "Do"
        /\ call[i].op = "ScheduleAllSnippetStorageMoves"
        /\ call[i].opts.SourceStorageName = ""
        /\ call[i].opts.DestinationStorageName = "storage2"
        /\ frame[i].doArgs.req.body = {<<"destination_storage_name", "storage2">>}

NonPositiveId(c) ==
    \E k \in 1..Len(DocumentedOperands(c)) : DocumentedOperands(c)[k] <= 0

\* C7: an invocation with a zero or negative identifier still built the
\* path with that value and called client.NewRequest, called client.Do when
\* NewRequest succeeded, and the error it returns is the client's.
C7_NoLocalValidation ==
    \A i \in Slots :
        (pc[i] # "idle" /\ NonPositiveId(call[i])) =>
            /\ Called(i, "NewRequest")
            /\ PathNames(frame[i].newRequestArgs.path, DocumentedOperands(call[i]))
            /\ frame[i].newRequestRet.err = NoErr => Called(i, "Do")
            /\ pc[i] = "returned" =>
                 ret[i][Len(ret[i])] = (IF Called(i, "Do") THEN frame[i].doRet.err
                                        ELSE frame[i].newRequestRet.err)

\* A negative snippet id and move id zero went out and came back as a 404.
C7_Witness ==
    \E i \in Slots :
        /\ pc[i] = "returned"
        /\ call[i].op = "GetStorageMoveForSnippet"
        /\ call[i].snippet < 0
        /\ call[i].repositoryStorage = 0
        /\ frame[i].trace = <<"NewRequest", "Do">>
        /\ frame[i].doArgs.req.url[Len(frame[i].doArgs.req.url)] = "0"
        /\ ret[i] = <<NilAddr, Response(404), "404 Not Found">>

\* What the caller holds, with pointers followed.
RecordAt(h, a) ==
    IF a = NilAddr THEN [isNil |-> TRUE, move |-> ZeroSnippetRepositoryStorageMove]
    ELSE [isNil |-> FALSE, move |-> h[a].move]

Present(m) == [isNil |-> FALSE, move |-> m]

Content(h, op, r) ==
    IF op \in SingleRecordOps THEN <<RecordAt(h, r[1]), r[2], r[3]>>
    ELSE IF op \in ListOps
    THEN <<[isNil |-> r[1].isNil,
            elems |-> [k \in 1..Len(r[1].elems) |-> RecordAt(h, r[1].elems[k])]],
           r[2], r[3]>>
    ELSE r

\* What an invocation returns when it runs alone, by the method, the result
\* of NewRequest and the outcome of its own request.
ResultAlone(op, nrErr, o) ==
    LET nilRec   == RecordAt(<<>>, NilAddr)
        nilList  == [isNil |-> TRUE, elems |-> <<>>]
        decodes  == IF op \in ListOps THEN o.body = "arrayBA"
                    ELSE o.body \in {"object", "objectB"}
        resp     == IF nrErr # NoErr \/ o.kind = "transport" THEN NilResp
                    ELSE Response(o.status)
        err      == IF nrErr # NoErr THEN nrErr
                    ELSE IF o.kind = "transport" THEN o.err
                    ELSE IF decodes THEN NoErr ELSE ErrUnmarshalType
    IN IF op \in SingleRecordOps
       THEN <<IF err = NoErr THEN Present(ExpectedMove(o.body)) ELSE nilRec,
              resp, err>>
       ELSE IF op \in ListOps
       THEN <<IF err = NoErr
              THEN [isNil |-> FALSE,
                    elems |-> <<Present(ExpectedMove("objectB")),
                                Present(ExpectedMove("object"))>>]
              ELSE nilList,
              resp, err>>
       ELSE <<resp, err>>

\* C8: with invocations interleaved on one service value the client is
\* never changed, every invocation returns what it would return alone for
\* its own arguments and its own response, sends its own request, and no
\* record is held by two invocations.
C8_Isolation ==
    /\ client = TheClient
    /\ \A i \in Slots :
         /\ frame[i].cells \subseteq DOMAIN heap
         /\ pc[i] # "idle" =>
              frame[i].newRequestRet
                  = NewRequest(TheClient, DocumentedMethod(call[i].op),
                               frame[i].newRequestArgs.path, call[i].opts,
                               frame[i].newRequestRet.err)
         /\ pc[i] = "Do" => frame[i].doArgs.req = frame[i].newRequestRet.req
         /\ pc[i] = "returned" =>
              Content(heap, call[i].op, ret[i])
                  = ResultAlone(call[i].op, frame[i].newRequestRet.err,
                                frame[i].outcome)
    /\ \A i, j \in Slots : i # j => frame[i].cells \cap frame[j].cells = {}

\* Two invocations whose requests were out together hold different records.
C8_Witness ==
    /\ pc[1] = "returned"
    /\ pc[2] = "returned"
    /\ call[1].op = "GetSnippetStorageMove"
    /\ call[2].op = "ScheduleStorageMoveForSnippet"
    /\ frame[1].outcome.body = "objectB"
    /\ frame[2].outcome.body = "object"
    /\ ret[1][1] # NilAddr
    /\ ret[2][1] # NilAddr
    /\ ret[1][1] # ret[2][1]
    /\ heap[ret[1][1]].move = ExpectedMove("objectB")
    /\ heap[ret[2][1]].move = ExpectedMove("object")

WellFormedArrays == {"emptyArray", "arrayA", "arrayAB", "arrayBA"}

\* A Go field holds the value of the JSON member: the number or string the
\* member holds, the zero value where the member is null or missing.
IntIs(x, obj, key) ==
    x = (IF Has(obj, key) /\ obj.f[key].t = "num" THEN obj.f[key].n ELSE 0)

StringIs(x, obj, key) ==
    x = (IF Has(obj, key) /\ obj.f[key].t = "str" THEN obj.f[key].s ELSE "")

\* C9: a list operation given a well-formed JSON array of move records
\* returns as many records, in the array's order, whose fields hold the
\* values of the array's elements.
C9_ListRoundTrip ==
    \A i \in Slots :
        (pc[i] = "returned" /\ call[i].op \in ListOps /\ Called(i, "Do")
           /\ frame[i].outcome.kind = "ok"
           /\ frame[i].outcome.body \in WellFormedArrays) =>
            LET arr == JsonOf(frame[i].outcome.body).a
                sl  == ret[i][1]
            IN /\ ret[i][3] = NoErr
               /\ ~sl.isNil
               /\ Len(sl.elems) = Len(arr)
               /\ \A k \in 1..Len(arr) :
                    /\ sl.elems[k] # NilAddr
                    /\ LET m  == heap[sl.elems[k]].move
                           j  == arr[k]
                           js == j.f["snippet"]
                       IN /\ IntIs(m.ID, j, "id")
                          /\ StringIs(m.State, j, "state")
                          /\ StringIs(m.SourceStorageName, j, "source_storage_name")
                          /\ StringIs(m.DestinationStorageName, j,
                                      "destination_storage_name")
                          /\ IntIs(m.Snippet.ID, js, "id")
                          /\ StringIs(m.Snippet.Title, js, "title")
                          /\ IntIs(m.Snippet.ProjectID, js, "project_id")
                          /\ StringIs(m.Snippet.WebURL, js, "web_url")
                          /\ StringIs(m.Snippet.RawURL, js, "raw_url")
                          /\ StringIs(m.Snippet.SshUrlToRepo, js, "ssh_url_to_repo")
                          /\ StringIs(m.Snippet.HttpUrlToRepo, js, "http_url_to_repo")

\* Two records came back in the order they were sent.
C9_Witness ==
    \E i \in Slots :
        /\ pc[i] = "returned"
        /\ call[i].op = "RetrieveAllStorageMovesForSnippet"
        /\ frame[i].outcome.body = "arrayBA"
        /\ Len(ret[i][1].elems) = 2
        /\ heap[ret[i][1].elems[1]].move = ExpectedMove("objectB")
        /\ heap[ret[i][1].elems[2]].move = ExpectedMove("object")

\* C10: a single-record operation returns a record exactly when it returns
\* no error, and whenever it called client.Do it returns the response that
\* client.Do returned.
C10_RecordIffNoError ==
    \A i \in Slots :
        (pc[i] = "returned" /\ call[i].op \in SingleRecordOps) =>
            /\ ret[i][1] # NilAddr <=> ret[i][3] = NoErr
            /\ ret[i][1] # NilAddr =>
                 /\ ret[i][1] \in DOMAIN heap
                 /\ heap[ret[i][1]].kind = "struct"
            /\ Called(i, "Do") => ret[i][2] = frame[i].doRet.resp

\* Success with an empty body: the record is there and holds zero values.
C10_Witness ==
    \E i \in Slots :
        /\ pc[i] = "returned"
        /\ call[i].op = "GetStorageMoveForSnippet"
        /\ frame[i].outcome = Outcome("ok", 204, "empty", NoErr, FALSE)
        /\ ret[i][1] # NilAddr
        /\ heap[ret[i][1]].move = ZeroSnippetRepositoryStorageMove
        /\ ret[i][2] = Response(204)
        /\ ret[i][3] = NoErr

====
